---- MODULE Spec2Model ----
(***************************************************************************)
(* The domain-event subsystem of ddd-typescript: identity-bearing          *)
(* aggregates (entity.ts), their pending-event buffers (aggregate-root.ts, *)
(* known through its callers), event records (domain-event.ts) and the     *)
(* process-wide DomainEventsBroker (domain-events-broker.ts).              *)
(***************************************************************************)
EXTENDS Integers, Sequences, FiniteSets, TLC

\* Bounds of the model.
MaxEvents == 2      \* event records pending at once, over all buffers
MaxHandlers == 2    \* handler registrations held by the broker at once

\* The objects of a run.
Insts == {"a", "b"}               \* aggregate objects (references)
Entities == Insts \cup {"c"}      \* entity objects: the aggregates and one that is no aggregate
Kinds == {"A", "B"}               \* names of the concrete event classes
Handlers == {"h1", "h2"}          \* handler functions
ProvidedIds == {"p"}              \* ids given in the constructor's data
Undefined == "undefined"
Null == "null"
NaN == "NaN"                      \* the number that is not === to itself
EntityIds == ProvidedIds \cup {"q", NaN}   \* ids given to entities compared with equals

VARIABLES
    id,                   \* AbstractEntity._id of each aggregate object
    domainEvents,         \* the pending-event buffer of each aggregate object
    eventHandlers,        \* DomainEventsBroker.eventHandlers: Map name -> handler[]
    aggregatesWithEvents, \* DomainEventsBroker.aggregatesWithEvents: AggregateRoot[]
    registerCalls,        \* per id: registerAggregate calls since the id was last unregistered (capped at 2)
    constructorName,      \* the name property of each event class (constructor.name)
    heap,                 \* the objects used as bundles of value objects: attributes, frozen or not
    value,                \* ValueObject._value of each value object, with the bundle as it was given
    stack,                \* the dispatchEvents calls in progress, innermost last, when handlers call back
    calls,                \* handler invocations made by the most recent dispatchAggregateEvents call
    result                \* the most recent dispatchAggregateEvents call: its argument, the instance it
                          \* found, how often that one had been registered, the buffer it iterated,
                          \* the exception that escaped; NoResult after any other call

vars == <<id, domainEvents, eventHandlers, aggregatesWithEvents,
          registerCalls, constructorName, heap, value, stack, calls, result>>

----------------------------------------------------------------------------
\* entity.ts

\* uuid(): a value no other call returns
uuid(inst) == "uuid-" \o inst

\* an object that has not been constructed yet
NotConstructed == "not constructed"

\* the data arguments of the constructor: an object with or without an id (an id that
\* is undefined or null counts as none), or undefined
Bundles ==
    {[defined |-> TRUE, id |-> v, name |-> "John"] :
        v \in EntityIds \cup {Undefined, Null}}
    \cup {[defined |-> FALSE, id |-> Undefined, name |-> Undefined]}

\* v is null or undefined: x ?? y is y
Nullish(v) == v = Undefined \/ v = Null

\* Variant of AbstractEntity: data?.id || generateId(), a falsy id is replaced.
M_AbstractEntityFalsy(data, generated) ==
    IF ~Nullish(data.id) /\ data.id # NaN THEN data.id ELSE generated

\* AbstractEntity constructor: this._id = data?.id ?? generateId()
AbstractEntity(data, generated) ==
    IF ~Nullish(data.id) THEN data.id ELSE generated

\* the number of generateId() calls the constructor makes: the right operand of ?? is
\* evaluated only when the left one is null or undefined
GenerateIdCalls(data) == IF Nullish(data.id) THEN 1 ELSE 0

\* delete data?.id
Deleted(data) == IF data.defined THEN [data EXCEPT !.id = Undefined] ELSE data

\* this._data = data ?? {}, after the delete
StoredData(data) ==
    IF data.defined THEN Deleted(data)
    ELSE [defined |-> TRUE, id |-> Undefined, name |-> Undefined]

IdValues == ProvidedIds \cup {uuid(i) : i \in Insts}

\* isEntity: v instanceof AbstractEntity; every entity object is one
isEntity(object) == object \in Entities

\* x === y on id values
StrictEquals(x, y) == x = y /\ x # NaN

\* a plain object { id: v, ... }: it has an id field and is no instance of AbstractEntity
PlainObject(v) == "plain:" \o v
PlainObjects == {PlainObject(v) : v \in EntityIds \cup {uuid(i) : i \in Insts}}

\* object.id
IdOf(object) ==
    IF object \in Entities THEN id[object]
    ELSE CHOOSE v \in EntityIds \cup {uuid(i) : i \in Insts} : PlainObject(v) = object

\* Variant of equals: whatever has an id field is compared by it (no instanceof test).
M_equalsDuckTyped(this, object) ==
    IF object = Null \/ object = Undefined
    THEN FALSE
    ELSE this = object \/ StrictEquals(id[this], IdOf(object))

\* Variant of equals: the ids alone are compared (no Object.is).
M_equalsByIdOnly(this, object) ==
    IF object = Null \/ object = Undefined \/ ~isEntity(object)
    THEN FALSE
    ELSE StrictEquals(id[this], id[object])

\* Variant of equals: only the object itself is equal to it.
M_equalsByReference(this, object) ==
    IF object = Null \/ object = Undefined \/ ~isEntity(object)
    THEN FALSE
    ELSE this = object

\* AbstractEntity.equals
equals(this, object) ==
    IF object = Null \/ object = Undefined \/ ~isEntity(object)
    THEN FALSE
    ELSE this = object \/ StrictEquals(id[this], id[object])

\* new SomeEntity(data): the object gets its id; what the constructor did is logged
new(inst, data) ==
    /\ id[inst] = NotConstructed
    /\ id' = [id EXCEPT ![inst] = AbstractEntity(data, uuid(inst))]
    /\ result' = [op |-> "new", this |-> inst, data |-> data,
                  generateIdCalls |-> GenerateIdCalls(data),
                  _data |-> StoredData(data)]
    /\ UNCHANGED <<constructorName, heap, value, stack, domainEvents, eventHandlers, aggregatesWithEvents,
                   registerCalls, calls>>

\* Variant of callEquals: this._id = object.id in place of this._id === object.id; the
\* id of the argument is assigned, and the value of the assignment is returned.
M_callEqualsAssigning(this, object) ==
    /\ id[this] # NotConstructed
    /\ object \in Entities => id[object] # NotConstructed
    /\ result' = [op |-> "equals", this |-> this, object |-> object,
                  value |-> object \in Entities]
    /\ id' = IF object \in Entities THEN [id EXCEPT ![this] = id[object]] ELSE id
    /\ calls' = <<>>
    /\ UNCHANGED <<constructorName, heap, value, stack, domainEvents, eventHandlers, aggregatesWithEvents,
                   registerCalls>>

\* a call this.equals(object) on constructed objects: the value it returns is logged
callEquals(this, object) ==
    /\ id[this] # NotConstructed
    /\ object \in Entities => id[object] # NotConstructed
    /\ result' = [op |-> "equals", this |-> this, object |-> object,
                  value |-> equals(this, object)]
    /\ calls' = <<>>
    /\ UNCHANGED <<id, constructorName, heap, value, stack, domainEvents, eventHandlers, aggregatesWithEvents, registerCalls>>

----------------------------------------------------------------------------
\* value-object.ts (ValueObject)

\* the objects a caller can hand to a value object as its bundle: two top-level objects,
\* each with an attribute name and an attribute inner that may hold one of two further
\* objects (bundles are trees, as data is)
TopRefs == {"r1", "r2"}
InnerRefs == {"r3", "r4"}
Refs == TopRefs \cup InnerRefs
ValueObjects == {"v1", "v2"}
Absent == "absent"
Strings == {"John"}
EmptyObject == [frozen |-> FALSE, name |-> Absent, inner |-> Absent]

\* what a bundle looks like to a deep reading of it: the attributes, level by level,
\* without the identity of any object
RECURSIVE Deep(_, _)
Deep(h, x) ==
    IF x \in Refs
    THEN "{name:" \o h[x].name \o ",inner:" \o Deep(h, h[x].inner) \o "}"
    ELSE x

\* the objects reachable from x
RECURSIVE Reach(_, _)
Reach(h, x) == IF x \in Refs THEN {x} \cup Reach(h, h[x].inner) ELSE {}

\* Variant of freeze: only the object itself is frozen, not the objects it holds.
M_freezeShallow(h, x) ==
    [r \in Refs |-> IF r = x THEN [h[r] EXCEPT !.frozen = TRUE] ELSE h[r]]

\* the bundle is made unmodifiable: the object and every object it holds
freeze(h, x) ==
    [r \in Refs |-> IF r \in Reach(h, x) THEN [h[r] EXCEPT !.frozen = TRUE] ELSE h[r]]

\* Variant of the comparison: attribute by attribute with ===, one level.
M_isEqualShallow(h, x, y) ==
    \/ x = y
    \/ /\ x \in Refs /\ y \in Refs
       /\ h[x].name = h[y].name
       /\ h[x].inner = h[y].inner

\* deep structural comparison of two values
RECURSIVE isEqual(_, _, _)
isEqual(h, x, y) ==
    \/ x = y
    \/ /\ x \in Refs /\ y \in Refs
       /\ h[x].name = h[y].name
       /\ isEqual(h, h[x].inner, h[y].inner)

\* the caller writes an attribute of an object, or deletes it (val = Absent); on a
\* frozen object the write fails and nothing changes
write(ref, attr, val) ==
    /\ heap' = IF heap[ref].frozen THEN heap
               ELSE IF attr = "name" THEN [heap EXCEPT ![ref].name = val]
               ELSE [heap EXCEPT ![ref].inner = val]
    /\ result' = [op |-> "write", ref |-> ref, failed |-> heap[ref].frozen]
    /\ UNCHANGED <<id, constructorName, value, stack, domainEvents, eventHandlers,
                   aggregatesWithEvents, registerCalls, calls>>

\* new ValueObject(data): the bundle is stored and frozen
newValueObject(vo, data) ==
    /\ value[vo]._value = NotConstructed
    /\ heap' = freeze(heap, data)
    /\ value' = [value EXCEPT ![vo] = [_value |-> data, given |-> Deep(heap, data)]]
    /\ result' = [op |-> "newValueObject", this |-> vo]
    /\ UNCHANGED <<id, constructorName, stack, domainEvents, eventHandlers,
                   aggregatesWithEvents, registerCalls, calls>>

\* get value()
getValue(vo) ==
    /\ value[vo]._value # NotConstructed
    /\ result' = [op |-> "value", this |-> vo, value |-> value[vo]._value]
    /\ UNCHANGED <<id, constructorName, heap, value, stack, domainEvents, eventHandlers,
                   aggregatesWithEvents, registerCalls, calls>>

\* equals(vo?)
valueEquals(this, vo) ==
    IF vo \in {Undefined, Null} THEN FALSE
    ELSE isEqual(heap, value[this]._value, value[vo]._value)

\* a call of this.equals(vo)
callValueEquals(this, vo) ==
    /\ value[this]._value # NotConstructed
    /\ vo \in ValueObjects => value[vo]._value # NotConstructed
    /\ result' = [op |-> "valueEquals", this |-> this, vo |-> vo,
                  value |-> valueEquals(this, vo)]
    /\ UNCHANGED <<id, constructorName, heap, value, stack, domainEvents, eventHandlers,
                   aggregatesWithEvents, registerCalls, calls>>

----------------------------------------------------------------------------
\* domain-event.ts

\* the event data of the tests ({ name, email }) and the clock readings
Payload == "payload"
EventData == {Undefined, Null, Payload}
Epoch == "t1"
Later == "t2"
Timestamps == {Epoch, Later}

\* new <kind>Event({ aggregateId }): the record. kind is the concrete class (the
\* object's constructor), ref stands for the object's identity (the aggregate object
\* that constructed it and its place in that buffer). The constructor stores no name of
\* the class; constructedAs is the name the class had at that moment, kept for the
\* properties only.

\* Variant of the constructor: data is stored as given (no ?? null).
M_AbstractDomainEventDataAsGiven(kind, ctx, data, now, ref) ==
    [kind |-> kind, aggregateId |-> ctx.aggregateId, timestamp |-> now,
     data |-> data, ref |-> ref, constructedAs |-> constructorName[kind]]

\* constructor(ctx, data?), now being what new Date().toISOString() yields
AbstractDomainEvent(kind, ctx, data, now, ref) ==
    [kind |-> kind, aggregateId |-> ctx.aggregateId, timestamp |-> now,
     data |-> IF Nullish(data) THEN Null ELSE data, ref |-> ref,
     constructedAs |-> constructorName[kind]]

----------------------------------------------------------------------------
\* domain-events-broker.ts

NoResult == [op |-> "none", arg |-> Null, found |-> Null, registered |-> 0,
             events |-> <<>>, error |-> Null]
EmptyMap == [k \in {} |-> <<>>]

\* Map.get(eventName) || []
HandlersOf(eventName) ==
    IF eventName \in DOMAIN eventHandlers THEN eventHandlers[eventName] ELSE <<>>

\* number of handler registrations in the Map
Registrations ==
    LET RECURSIVE Sum(_)
        Sum(S) == IF S = {} THEN 0
                  ELSE LET k == CHOOSE x \in S : TRUE
                       IN Len(eventHandlers[k]) + Sum(S \ {k})
    IN Sum(DOMAIN eventHandlers)

\* aggregatesWithEvents.find((agg) => agg.id === id) ?? null
findRegisteredAggregateById(idv) ==
    LET hits == {n \in 1..Len(aggregatesWithEvents) :
                    StrictEquals(id[aggregatesWithEvents[n]], idv)}
    IN IF hits = {} THEN Null
       ELSE aggregatesWithEvents[CHOOSE n \in hits : \A m \in hits : n <= m]

\* the array without index n (splice(n, 1))
Splice(arr, n) == [m \in 1..(Len(arr) - 1) |-> IF m < n THEN arr[m] ELSE arr[m + 1]]

\* Variant of unregisterAggregate: the first entry is removed, whichever it is.
M_unregisterFirst(aggregate) ==
    IF aggregatesWithEvents = <<>> THEN aggregatesWithEvents
    ELSE Splice(aggregatesWithEvents, 1)

\* unregisterAggregate: findIndex((agg) => agg.equals(aggregate)), then splice
unregisterAggregate(aggregate) ==
    LET hits == {n \in 1..Len(aggregatesWithEvents) :
                    equals(aggregatesWithEvents[n], aggregate)}
    IN IF hits = {} THEN aggregatesWithEvents
       ELSE Splice(aggregatesWithEvents, CHOOSE n \in hits : \A m \in hits : n <= m)

\* Variant of InvokeHandlers: the loop catches what a handler throws and goes on.
RECURSIVE M_InvokeHandlersCatching(_, _, _, _)
M_InvokeHandlersCatching(hs, j, event, fuse) ==
    IF j > Len(hs) THEN [calls |-> <<>>, error |-> Null, fuse |-> fuse]
    ELSE LET call == [handler |-> hs[j], event |-> event, slot |-> j]
             rest == M_InvokeHandlersCatching(hs, j + 1, event,
                                              IF fuse = 0 THEN Len(hs) ELSE fuse - 1)
         IN [calls |-> <<call @@ [outcome |-> IF fuse = 0 THEN "threw" ELSE "returned"]>>
                          \o rest.calls,
             error |-> Null, fuse |-> rest.fuse]

\* Variant of InvokeHandlers: await handle(event); what a handler returns is awaited
\* before the next handler is invoked, so every invocation has completed by then.
RECURSIVE M_InvokeHandlersAwaiting(_, _, _, _)
M_InvokeHandlersAwaiting(hs, j, event, fuse) ==
    IF j > Len(hs) THEN [calls |-> <<>>, error |-> Null, fuse |-> fuse]
    ELSE LET call == [handler |-> hs[j], event |-> event, slot |-> j]
         IN IF fuse = 0
            THEN [calls |-> <<call @@ [outcome |-> "threw"]>>, error |-> hs[j], fuse |-> 0]
            ELSE LET rest == M_InvokeHandlersAwaiting(hs, j + 1, event, fuse - 1)
                 IN [calls |-> <<call @@ [outcome |-> "resolved"]>> \o rest.calls,
                     error |-> rest.error, fuse |-> rest.fuse]

\* inner forEach of dispatchEvents: void handle(event) for each handler from slot j on.
\* What a handler does is its own code: fuse is the number of invocations that return
\* before one throws. A handler that throws ends the iteration and its exception escapes.
RECURSIVE InvokeHandlers(_, _, _, _)
InvokeHandlers(hs, j, event, fuse) ==
    IF j > Len(hs) THEN [calls |-> <<>>, error |-> Null, fuse |-> fuse]
    ELSE LET call == [handler |-> hs[j], event |-> event, slot |-> j]
         IN IF fuse = 0
            THEN [calls |-> <<call @@ [outcome |-> "threw"]>>, error |-> hs[j], fuse |-> 0]
            ELSE LET rest == InvokeHandlers(hs, j + 1, event, fuse - 1)
                 IN [calls |-> <<call @@ [outcome |-> "returned"]>> \o rest.calls,
                     error |-> rest.error, fuse |-> rest.fuse]

\* outer forEach of dispatchEvents over the buffer, from index n on
RECURSIVE ForEachEvent(_, _, _)
ForEachEvent(events, n, fuse) ==
    IF n > Len(events) THEN [calls |-> <<>>, error |-> Null]
    ELSE LET eventName == constructorName[events[n].kind]
             one == InvokeHandlers(HandlersOf(eventName), 1, events[n], fuse)
         IN IF one.error # Null THEN [calls |-> one.calls, error |-> one.error]
            ELSE LET rest == ForEachEvent(events, n + 1, one.fuse)
                 IN [calls |-> one.calls \o rest.calls, error |-> rest.error]

\* Variant of dispatchEvents: only the first buffered event is dispatched.
M_dispatchEventsFirstOnly(aggregate, fuse) ==
    LET events == domainEvents[aggregate]
    IN ForEachEvent(IF events = <<>> THEN events ELSE <<Head(events)>>, 1, fuse)

\* Variant of dispatchEvents: the events are dispatched once per registerAggregate call
\* (a registry that keeps duplicates, each entry visited).
M_dispatchEventsPerRegistration(aggregate, fuse) ==
    LET run == ForEachEvent(domainEvents[aggregate], 1, fuse)
    IN [calls |-> IF registerCalls[id[aggregate]] >= 2 /\ run.error = Null
                  THEN run.calls \o run.calls ELSE run.calls,
        error |-> run.error]

\* Variant of dispatchEvents: the buffer is iterated from its last event to its first.
M_dispatchEventsReversed(aggregate, fuse) ==
    LET events == domainEvents[aggregate]
    IN ForEachEvent([n \in 1..Len(events) |-> events[Len(events) + 1 - n]], 1, fuse)

\* dispatchEvents(aggregate): the invocations made and the exception that escaped, if any
dispatchEvents(aggregate, fuse) == ForEachEvent(domainEvents[aggregate], 1, fuse)

\* the buffers after aggregate.clearDomainEvents()
Cleared(aggregate) == [domainEvents EXCEPT ![aggregate] = <<>>]

\* the records that are in some buffer
Buffered(bufs) == UNION {{bufs[i][n].ref : n \in 1..Len(bufs[i])} : i \in Insts}

\* Variant of Concat: the handler is put in front (unshift).
M_Unshift(eventName, handler) == <<handler>> \o HandlersOf(eventName)

\* Variant of Concat: a handler already in the list is not added again.
M_ConcatUnique(eventName, handler) ==
    IF \E j \in 1..Len(HandlersOf(eventName)) : HandlersOf(eventName)[j] = handler
    THEN HandlersOf(eventName)
    ELSE Append(HandlersOf(eventName), handler)

\* Variant of Concat: the list of the kind is replaced by the new handler alone (set
\* without the concat).
M_ConcatReplacing(eventName, handler) == <<handler>>

\* (eventHandlers.get(eventName) || []).concat(handler)
Concat(eventName, handler) == Append(HandlersOf(eventName), handler)

registerEventHandler(eventName, handler) ==
    /\ Registrations < MaxHandlers
    /\ eventHandlers' =
          [k \in DOMAIN eventHandlers \cup {eventName} |->
              IF k = eventName THEN Concat(eventName, handler) ELSE eventHandlers[k]]
    /\ calls' = <<>>
    /\ result' = NoResult
    /\ UNCHANGED <<id, constructorName, heap, value, stack, domainEvents, aggregatesWithEvents, registerCalls>>

\* Variant of Registered: the registry is searched for the object, not for its id.
M_RegisteredByReference(aggregate) ==
    IF \E n \in 1..Len(aggregatesWithEvents) : aggregatesWithEvents[n] = aggregate
    THEN aggregatesWithEvents
    ELSE Append(aggregatesWithEvents, aggregate)

\* the registry after registerAggregate(aggregate)
Registered(aggregate) ==
    IF findRegisteredAggregateById(id[aggregate]) = Null
    THEN Append(aggregatesWithEvents, aggregate)
    ELSE aggregatesWithEvents

Counted(aggregate) ==
    [registerCalls EXCEPT ![id[aggregate]] = IF @ < 2 THEN @ + 1 ELSE @]

registerAggregate(aggregate) ==
    /\ aggregatesWithEvents' = Registered(aggregate)
    /\ registerCalls' = Counted(aggregate)
    /\ calls' = <<>>
    /\ result' = NoResult
    /\ UNCHANGED <<id, constructorName, heap, value, stack, domainEvents, eventHandlers>>

\* Variant of Completed: the buffer is not cleared.
M_CompletedWithoutClear(found) ==
    /\ domainEvents' = domainEvents
    /\ aggregatesWithEvents' = unregisterAggregate(found)
    /\ registerCalls' = [registerCalls EXCEPT ![id[found]] = 0]

\* Variant of Completed: the buffer is cleared, the aggregate stays registered.
M_CompletedWithoutUnregister(found) ==
    /\ domainEvents' = Cleared(found)
    /\ UNCHANGED <<aggregatesWithEvents, registerCalls>>

\* dispatchAggregateEvents after dispatchEvents returned: found.clearDomainEvents(),
\* then unregisterAggregate(found)
Completed(found) ==
    /\ domainEvents' = Cleared(found)
    /\ aggregatesWithEvents' = unregisterAggregate(found)
    /\ registerCalls' = [registerCalls EXCEPT ![id[found]] = 0]

\* Variant of Aborted: the clean-up runs in a finally block.
M_AbortedCleanup(found) == Completed(found)

\* dispatchAggregateEvents when a handler's exception escapes dispatchEvents: the two
\* statements after it are not reached
Aborted(found) ==
    UNCHANGED <<domainEvents, aggregatesWithEvents, registerCalls>>

\* the body of if (found) { ... }
Dispatched(aggregate, found, fuse) ==
    LET run == dispatchEvents(found, fuse)
    IN /\ calls' = run.calls
       /\ result' = [op |-> "dispatch", arg |-> aggregate, found |-> found,
                     registered |-> registerCalls[id[found]],
                     events |-> domainEvents[found], error |-> run.error]
       /\ IF run.error # Null THEN Aborted(found) ELSE Completed(found)

\* Variant of Ignored: clearDomainEvents() is called on the argument although no
\* aggregate was found.
M_IgnoredClears(aggregate) ==
    /\ calls' = <<>>
    /\ result' = [op |-> "dispatch", arg |-> aggregate, found |-> Null,
                  registered |-> 0, events |-> <<>>, error |-> Null]
    /\ domainEvents' = Cleared(aggregate)
    /\ UNCHANGED <<aggregatesWithEvents, registerCalls>>

\* found is null: nothing is done
Ignored(aggregate) ==
    /\ calls' = <<>>
    /\ result' = [op |-> "dispatch", arg |-> aggregate, found |-> Null,
                  registered |-> 0, events |-> <<>>, error |-> Null]
    /\ UNCHANGED <<domainEvents, aggregatesWithEvents, registerCalls>>

\* Variant of dispatchAggregateEvents: the argument's own events are dispatched.
M_dispatchArgument(aggregate, fuse) ==
    /\ IF findRegisteredAggregateById(id[aggregate]) # Null
       THEN Dispatched(aggregate, aggregate, fuse) ELSE Ignored(aggregate)
    /\ UNCHANGED <<id, constructorName, heap, value, stack, eventHandlers>>

\* Variant of dispatchAggregateEvents: an aggregate that is not registered is dispatched too.
M_dispatchUnregistered(aggregate, fuse) ==
    LET found == findRegisteredAggregateById(id[aggregate])
    IN /\ Dispatched(aggregate, IF found # Null THEN found ELSE aggregate, fuse)
       /\ UNCHANGED <<id, constructorName, heap, value, stack, eventHandlers>>

dispatchAggregateEvents(aggregate, fuse) ==
    LET found == findRegisteredAggregateById(id[aggregate])
    IN /\ IF found # Null THEN Dispatched(aggregate, found, fuse) ELSE Ignored(aggregate)
       /\ UNCHANGED <<id, constructorName, heap, value, stack, eventHandlers>>

\* Variant of clearEventHandlers: only the handlers of the first kind are dropped.
M_clearEventHandlersOneKind ==
    /\ eventHandlers' = [k \in DOMAIN eventHandlers \ {"A"} |-> eventHandlers[k]]
    /\ calls' = <<>>
    /\ result' = NoResult
    /\ UNCHANGED <<id, constructorName, heap, value, stack, domainEvents, aggregatesWithEvents, registerCalls>>

\* eventHandlers.clear()
clearEventHandlers ==
    /\ eventHandlers' = EmptyMap
    /\ calls' = <<>>
    /\ result' = NoResult
    /\ UNCHANGED <<id, constructorName, heap, value, stack, domainEvents, aggregatesWithEvents, registerCalls>>

\* Variant of clearRegisteredAggregates: the buffers of the registered aggregates are
\* emptied as well.
M_clearRegisteredAggregatesAndBuffers ==
    /\ aggregatesWithEvents' = <<>>
    /\ domainEvents' = [i \in Insts |-> IF \E n \in 1..Len(aggregatesWithEvents) :
                                             aggregatesWithEvents[n] = i
                                        THEN <<>> ELSE domainEvents[i]]
    /\ registerCalls' = [v \in IdValues |-> 0]
    /\ calls' = <<>>
    /\ result' = NoResult
    /\ UNCHANGED <<id, constructorName, heap, value, stack, eventHandlers>>

\* aggregatesWithEvents.length = 0
clearRegisteredAggregates ==
    /\ aggregatesWithEvents' = <<>>
    /\ registerCalls' = [v \in IdValues |-> 0]
    /\ calls' = <<>>
    /\ result' = NoResult
    /\ UNCHANGED <<id, constructorName, heap, value, stack, domainEvents, eventHandlers>>

----------------------------------------------------------------------------
\* aggregate-root.ts (AbstractAggregateRoot)

\* Variant of addDomainEvent: the event is put in front of the buffer (unshift).
M_addDomainEventInFront(aggregate, kind) ==
    /\ Cardinality(Buffered(domainEvents)) < MaxEvents
    /\ domainEvents' = [domainEvents EXCEPT ![aggregate] =
                           <<AbstractDomainEvent(kind, [aggregateId |-> id[aggregate]],
                               Payload, Epoch, <<aggregate, Len(@) + 1>>)>> \o @]
    /\ aggregatesWithEvents' = Registered(aggregate)
    /\ registerCalls' = Counted(aggregate)
    /\ calls' = <<>>
    /\ result' = NoResult
    /\ UNCHANGED <<id, constructorName, heap, value, stack, eventHandlers>>

\* Variant of addDomainEvent: the event is appended, the broker is not told.
M_addDomainEventUnregistered(aggregate, kind) ==
    /\ Cardinality(Buffered(domainEvents)) < MaxEvents
    /\ domainEvents' = [domainEvents EXCEPT ![aggregate] =
                           Append(@, AbstractDomainEvent(kind, [aggregateId |-> id[aggregate]],
                               Payload, Epoch, <<aggregate, Len(@) + 1>>))]
    /\ calls' = <<>>
    /\ result' = NoResult
    /\ UNCHANGED <<id, constructorName, heap, value, stack, eventHandlers, aggregatesWithEvents, registerCalls>>

\* a domain method of the aggregate (createUser in the tests) called with the clock at
\* now: this.addDomainEvent(new <kind>Event({ aggregateId: this.id }, data))
raise(aggregate, kind, data, now) ==
    /\ Cardinality(Buffered(domainEvents)) < MaxEvents
    /\ domainEvents' = [domainEvents EXCEPT ![aggregate] =
                           Append(@, AbstractDomainEvent(kind, [aggregateId |-> id[aggregate]],
                               data, now, <<aggregate, Len(@) + 1>>))]
    /\ aggregatesWithEvents' = Registered(aggregate)
    /\ registerCalls' = Counted(aggregate)
    /\ calls' = <<>>
    /\ result' = NoResult
    /\ UNCHANGED <<id, constructorName, heap, value, stack, eventHandlers>>

\* addDomainEvent(new <kind>Event({ aggregateId: this.id }, payload)): append, then register with the broker
addDomainEvent(aggregate, kind) ==
    /\ Cardinality(Buffered(domainEvents)) < MaxEvents
    /\ domainEvents' = [domainEvents EXCEPT ![aggregate] =
                           Append(@, AbstractDomainEvent(kind, [aggregateId |-> id[aggregate]],
                               Payload, Epoch, <<aggregate, Len(@) + 1>>))]
    /\ aggregatesWithEvents' = Registered(aggregate)
    /\ registerCalls' = Counted(aggregate)
    /\ calls' = <<>>
    /\ result' = NoResult
    /\ UNCHANGED <<id, constructorName, heap, value, stack, eventHandlers>>

\* clearDomainEvents() called by the owner
clearDomainEvents(aggregate) ==
    /\ domainEvents[aggregate] # <<>>
    /\ domainEvents' = Cleared(aggregate)
    /\ calls' = <<>>
    /\ result' = NoResult
    /\ UNCHANGED <<id, constructorName, heap, value, stack, eventHandlers, aggregatesWithEvents, registerCalls>>

----------------------------------------------------------------------------
\* the handler invocations a dispatch for the aggregate makes when every handler returns
FullRun(aggregate) ==
    LET found == findRegisteredAggregateById(id[aggregate])
    IN IF found = Null THEN <<>>
       ELSE dispatchEvents(found, MaxEvents * MaxHandlers).calls

Init ==
    /\ \E data \in {d \in [Insts -> [id : ProvidedIds \cup {Undefined}]] :
                        d["a"].id # Undefined} :
          id = [i \in Entities |-> IF i \in Insts THEN AbstractEntity(data[i], uuid(i))
                                   ELSE NotConstructed]
    /\ domainEvents = [i \in Insts |-> <<>>]
    /\ eventHandlers = EmptyMap
    /\ aggregatesWithEvents = <<>>
    /\ registerCalls = [v \in IdValues |-> 0]
    /\ constructorName = [k \in Kinds |-> k]
    /\ heap = [r \in Refs |-> EmptyObject]
    /\ value = [v \in ValueObjects |-> [_value |-> NotConstructed, given |-> NotConstructed]]
    /\ stack = <<>>
    /\ calls = <<>>
    /\ result = NoResult

Next ==
    \/ \E n \in Kinds, h \in Handlers : registerEventHandler(n, h)
    \/ \E a \in Insts : registerAggregate(a)
    \/ \E a \in Insts : \E fuse \in 0..Len(FullRun(a)) : dispatchAggregateEvents(a, fuse)
    \/ clearEventHandlers
    \/ clearRegisteredAggregates
    \/ \E a \in Insts, k \in Kinds : addDomainEvent(a, k)
    \/ \E a \in Insts : clearDomainEvents(a)

Spec == Init /\ [][Next]_vars

----------------------------------------------------------------------------
\* Asynchronous handlers: what an invocation returned may be a promise, which void
\* discards; it can be rejected after dispatchEvents has gone on.

\* nothing of the broker is subscribed to the promise: its rejection runs no code of
\* the broker and reaches no caller of it
Unobserved ==
    UNCHANGED <<id, constructorName, heap, value, stack, domainEvents, eventHandlers, aggregatesWithEvents, registerCalls, result>>

\* the promise returned by the n-th invocation of the most recent dispatch is rejected
\* (one rejection per dispatch is followed)
handlerRejects(n) ==
    /\ \A m \in 1..Len(calls) : calls[m].outcome # "rejected"
    /\ calls[n].outcome = "returned"
    /\ calls' = [calls EXCEPT ![n].outcome = "rejected"]
    /\ Unobserved

\* every handler is an async function: an invocation returns a promise and never throws
NextAsync ==
    \/ \E n \in Kinds, h \in Handlers : registerEventHandler(n, h)
    \/ \E a \in Insts : registerAggregate(a)
    \/ \E a \in Insts : dispatchAggregateEvents(a, Len(FullRun(a)))
    \/ clearEventHandlers
    \/ clearRegisteredAggregates
    \/ \E a \in Insts, k \in Kinds : addDomainEvent(a, k)
    \/ \E a \in Insts : clearDomainEvents(a)
    \/ \E n \in 1..Len(calls) : handlerRejects(n)

SpecAsync == Init /\ [][NextAsync]_vars

----------------------------------------------------------------------------
\* Events constructed with and without data, at different clock readings.
\* One aggregate and one handler are followed: the records are what varies here.

NextEvent ==
    \/ \E n \in Kinds : registerEventHandler(n, "h1")
    \/ registerAggregate("a")
    \/ \E fuse \in 0..Len(FullRun("a")) : dispatchAggregateEvents("a", fuse)
    \/ clearEventHandlers
    \/ clearRegisteredAggregates
    \/ \E k \in Kinds, data \in EventData, now \in Timestamps : raise("a", k, data, now)
    \/ clearDomainEvents("a")

SpecEvent == Init /\ [][NextEvent]_vars

----------------------------------------------------------------------------
\* Event classes whose name changes while records of them are pending.

\* the name property of an event class gets another value (a function's name is a
\* configurable property), which event.constructor.name yields from then on
renameEventClass(kind, name) ==
    /\ constructorName[kind] # name
    /\ constructorName' = [constructorName EXCEPT ![kind] = name]
    /\ calls' = <<>>
    /\ result' = NoResult
    /\ UNCHANGED <<id, heap, value, stack, domainEvents, eventHandlers, aggregatesWithEvents, registerCalls>>

NextRename ==
    \/ Next
    \/ \E k \in Kinds, name \in Kinds : renameEventClass(k, name)

SpecRename == Init /\ [][NextRename]_vars

----------------------------------------------------------------------------
\* The aggregates of the broker compared with equals between the broker's operations.

NextIdentity ==
    \/ Next
    \/ \E this \in Insts, object \in Insts : callEquals(this, object)

SpecIdentity == Init /\ [][NextIdentity]_vars

----------------------------------------------------------------------------
\* Entities on their own: two objects are constructed, with or without an id in their
\* data, and equals is called on them with every kind of argument.

InitEntity ==
    /\ id = [i \in Entities |-> NotConstructed]
    /\ domainEvents = [i \in Insts |-> <<>>]
    /\ eventHandlers = EmptyMap
    /\ aggregatesWithEvents = <<>>
    /\ registerCalls = [v \in IdValues |-> 0]
    /\ constructorName = [k \in Kinds |-> k]
    /\ heap = [r \in Refs |-> EmptyObject]
    /\ value = [v \in ValueObjects |-> [_value |-> NotConstructed, given |-> NotConstructed]]
    /\ stack = <<>>
    /\ calls = <<>>
    /\ result = NoResult

NextEntity ==
    \/ \E inst \in Entities, data \in Bundles : new(inst, data)
    \/ \E this \in Entities, object \in Entities \cup {Null, Undefined} \cup PlainObjects :
       callEquals(this, object)

SpecEntity == InitEntity /\ [][NextEntity]_vars

----------------------------------------------------------------------------
\* Value objects constructed over bundles that their callers keep references to.

NextValue ==
    \/ \E ref \in Refs, val \in Strings \cup {Null, Absent} : write(ref, "name", val)
    \/ \E ref \in TopRefs, val \in InnerRefs \cup {Absent} : write(ref, "inner", val)
    \/ \E vo \in ValueObjects, data \in TopRefs \cup Strings : newValueObject(vo, data)
    \/ \E vo \in ValueObjects : getValue(vo)
    \/ \E this \in ValueObjects, vo \in ValueObjects \cup {Undefined, Null} :
          callValueEquals(this, vo)

SpecValue == InitEntity /\ [][NextValue]_vars

----------------------------------------------------------------------------
\* Handlers that call back into the broker and into the aggregate while its events are
\* dispatched. One aggregate is followed. A frame of stack is a dispatchEvents call in
\* progress: the aggregate found, the array the outer forEach iterates (events) and its
\* index n, the array the inner forEach iterates (hs) and its index j, the handler
\* hs[j] running, whether that handler has made its call (one call per invocation is
\* followed), and whether a handler of this call has itself dispatched, cleared the
\* buffer or cleared the registry (once per outermost dispatch). The handlers the
\* application registers are h1, the one a handler registers is h2.

Top == stack[Len(stack)]

\* event.constructor.name
NameOf(event) == constructorName[event.kind]

\* the outer forEach has no element left
Finished(frame) == frame.n > Len(frame.events)

\* Variant of Iterated: the inner loop reads the Map's current array at every step
\* (for (j = 0; j < eventHandlers.get(eventName).length; j++)).
M_IteratedLive(frame) == HandlersOf(NameOf(frame.events[frame.n]))

\* the array of the inner forEach: the one the Map held when the event's turn came.
\* registerEventHandler never changes an array, it stores a new one (concat).
Iterated(frame) == frame.hs

\* outer forEach from index m on: where it can come to rest, at the first invocation
\* for an event or at its end. forEach visits the indices below the length the array
\* had at its start and takes what the array holds then. aggregate-root.ts being absent,
\* both are followed: an array that clearDomainEvents has replaced (the elements are
\* those at the start) and one it has emptied in place (the elements are those of the
\* buffer now, an index the buffer no longer has is passed over).
RECURSIVE ForEachFrom(_, _)
ForEachFrom(frame, m) ==
    IF m > Len(frame.events)
    THEN {[frame EXCEPT !.n = m, !.hs = <<>>, !.j = 0, !.acted = FALSE]}
    ELSE LET live == domainEvents[frame.found]
             seen == {frame.events[m]} \cup (IF m <= Len(live) THEN {live[m]} ELSE {})
         IN UNION ({IF HandlersOf(NameOf(e)) = <<>>
                    THEN ForEachFrom(frame, m + 1)
                    ELSE {[frame EXCEPT !.n = m, !.events[m] = e,
                                        !.hs = HandlersOf(NameOf(e)), !.j = 1,
                                        !.acted = FALSE]} :
                       e \in seen}
                   \cup {IF m > Len(live) THEN ForEachFrom(frame, m + 1) ELSE {}})

\* the running handler has returned: the next handler of the array, or the next event
Advance(frame) ==
    IF frame.j < Len(Iterated(frame))
    THEN {[frame EXCEPT !.j = @ + 1, !.acted = FALSE]}
    ELSE ForEachFrom(frame, frame.n + 1)

\* Variant of Pending: the buffer is cleared before dispatchEvents is called.
M_PendingCleared(found) == Cleared(found)

\* the buffers while dispatchEvents(found) runs: found.clearDomainEvents() comes after it
Pending(found) == domainEvents

\* the log of the outermost dispatch: the event a handler recorded during it (late),
\* whether a handler has been invoked with that event, the registrations handlers made
Delivered(log, frame) ==
    [log EXCEPT !.delivered = @ \/ frame.events[frame.n] \in log.late]

\* the frames with the innermost marked: its handler has made its call
Acted == [stack EXCEPT ![Len(stack)].acted = TRUE]

\* the frames with the innermost marked: its handler made the call named
Interfered(call) == [Acted EXCEPT ![Len(stack)].interfered = call]

\* the running handler has made no call yet
Fresh == stack # <<>> /\ ~Top.acted

\* no handler of the outermost dispatch has cleared or dispatched
Undisturbed == \A d \in 1..Len(stack) : stack[d].interfered = "no"

\* what is kept of the log when the outermost dispatch is over
Closed(log, state, error) ==
    [log EXCEPT !.state = state, !.regs = {}, !.error = error]

\* dispatchAggregateEvents(aggregate), called by the application (stack empty) or by the
\* running handler: up to the first handler invocation, or to its end if there is none
callDispatchAggregateEvents(aggregate) ==
    LET found == findRegisteredAggregateById(id[aggregate])
        caller == IF stack = <<>> THEN stack ELSE Interfered("dispatchAggregateEvents")
        log == IF stack = <<>>
               THEN [op |-> "dispatch", state |-> "running", arg |-> aggregate,
                     found |-> found, late |-> {}, delivered |-> FALSE,
                     regs |-> {}, error |-> Null]
               ELSE result
    IN /\ found # Null
       /\ \E frame \in ForEachFrom([found |-> found, events |-> domainEvents[found], n |-> 0,
                                   hs |-> <<>>, j |-> 0, acted |-> FALSE,
                                   interfered |-> "no"], 1) :
             IF Finished(frame)
             THEN /\ Completed(found)
                  /\ stack' = caller
                  /\ result' = IF stack = <<>> THEN Closed(log, "returned", Null) ELSE log
             ELSE /\ domainEvents' = Pending(found)
                  /\ stack' = Append(caller, frame)
                  /\ result' = Delivered(log, frame)
                  /\ UNCHANGED <<aggregatesWithEvents, registerCalls>>
       /\ UNCHANGED <<id, constructorName, heap, value, eventHandlers, calls>>

\* the running handler returns: the loops go on; after the last invocation
\* dispatchEvents returns, the buffer is cleared and the aggregate unregistered
handlerReturns ==
    /\ stack # <<>>
    /\ \E frame \in Advance(Top) :
          IF Finished(frame)
          THEN /\ Completed(Top.found)
               /\ stack' = SubSeq(stack, 1, Len(stack) - 1)
               /\ result' = IF Len(stack) = 1 THEN Closed(result, "returned", Null)
                            ELSE result
          ELSE /\ stack' = [stack EXCEPT ![Len(stack)] = frame]
               /\ result' = Delivered(result, frame)
               /\ UNCHANGED <<domainEvents, aggregatesWithEvents, registerCalls>>
    /\ UNCHANGED <<id, constructorName, heap, value, eventHandlers, calls>>

\* the running handler throws: nothing catches, every call in progress is left
handlerThrows ==
    /\ stack # <<>>
    /\ stack' = <<>>
    /\ result' = Closed(result, "threw", Iterated(Top)[Top.j])
    /\ UNCHANGED <<id, constructorName, heap, value, domainEvents, eventHandlers,
                   aggregatesWithEvents, registerCalls, calls>>

\* the running handler calls a domain method of the aggregate being dispatched, which
\* records an event (one such event per outermost dispatch is followed)
handlerRecords(kind) ==
    LET aggregate == Top.found
        event == AbstractDomainEvent(kind, [aggregateId |-> id[aggregate]], Payload, Later,
                                     <<aggregate, Len(domainEvents[aggregate]) + 1>>)
    IN /\ Fresh
       /\ result.late = {}
       /\ Cardinality(Buffered(domainEvents)) < MaxEvents
       /\ domainEvents' = [domainEvents EXCEPT ![aggregate] = Append(@, event)]
       /\ aggregatesWithEvents' = Registered(aggregate)
       /\ registerCalls' = Counted(aggregate)
       /\ result' = [result EXCEPT !.late = {event}]
       /\ stack' = Acted
       /\ UNCHANGED <<id, constructorName, heap, value, eventHandlers, calls>>

\* the running handler calls registerEventHandler(eventName, handler)
handlerRegisters(eventName, handler) ==
    /\ Fresh
    /\ Registrations < MaxHandlers
    /\ eventHandlers' =
          [k \in DOMAIN eventHandlers \cup {eventName} |->
              IF k = eventName THEN Concat(eventName, handler) ELSE eventHandlers[k]]
    /\ result' = [result EXCEPT !.regs = @ \cup
                     {[kind |-> eventName, handler |-> handler,
                       slot |-> Len(HandlersOf(eventName)) + 1,
                       depth |-> Len(stack), n |-> Top.n]}]
    /\ stack' = Acted
    /\ UNCHANGED <<id, constructorName, heap, value, domainEvents,
                   aggregatesWithEvents, registerCalls, calls>>

\* the running handler calls clearRegisteredAggregates()
handlerClearsRegistry ==
    /\ Fresh /\ Undisturbed
    /\ aggregatesWithEvents # <<>>
    /\ aggregatesWithEvents' = <<>>
    /\ registerCalls' = [v \in IdValues |-> 0]
    /\ stack' = Interfered("clearRegisteredAggregates")
    /\ UNCHANGED <<id, constructorName, heap, value, domainEvents, eventHandlers, calls, result>>

\* the running handler calls clearDomainEvents() of the aggregate being dispatched
handlerClearsBuffer ==
    /\ Fresh /\ Undisturbed
    /\ domainEvents[Top.found] # <<>>
    /\ domainEvents' = Cleared(Top.found)
    /\ stack' = Interfered("clearDomainEvents")
    /\ UNCHANGED <<id, constructorName, heap, value, eventHandlers, aggregatesWithEvents,
                   registerCalls, calls, result>>

\* the running handler calls dispatchAggregateEvents for the aggregate being dispatched
\* (once: a handler that always did would never return)
handlerDispatches ==
    /\ Len(stack) = 1
    /\ Fresh /\ Undisturbed
    /\ callDispatchAggregateEvents(Top.found)

NextReentrant ==
    \/ stack = <<>> /\ \E n \in Kinds : registerEventHandler(n, "h1")
    \/ stack = <<>> /\ \E k \in Kinds : addDomainEvent("a", k)
    \/ stack = <<>> /\ callDispatchAggregateEvents("a")
    \/ handlerReturns
    \/ handlerThrows
    \/ \E k \in Kinds : handlerRecords(k)
    \/ \E n \in Kinds : handlerRegisters(n, "h2")
    \/ handlerClearsRegistry
    \/ handlerClearsBuffer
    \/ handlerDispatches

\* the other aggregate object takes no part; it has an id of its own
InitReentrant == Init /\ id["b"] # id["a"]

SpecReentrant == InitReentrant /\ [][NextReentrant]_vars

----------------------------------------------------------------------------
\* Properties

\* the most recent call was a dispatch that found a registered instance
Dispatching == result.op = "dispatch" /\ result.found # Null

\* the invocations cs hold, for every event of the buffer, one invocation of every
\* registration under the event's kind, with that event, and nothing else
ExactlyOnce(cs, events) ==
    /\ \A n \in 1..Len(events) :
          \A j \in 1..Len(HandlersOf(events[n].kind)) :
             Cardinality({m \in 1..Len(cs) :
                             /\ cs[m].event = events[n]
                             /\ cs[m].slot = j
                             /\ cs[m].handler = HandlersOf(events[n].kind)[j]}) = 1
    /\ \A m \in 1..Len(cs) :
          \E n \in 1..Len(events) :
             /\ cs[m].event = events[n]
             /\ cs[m].slot \in 1..Len(HandlersOf(events[n].kind))
             /\ cs[m].handler = HandlersOf(events[n].kind)[cs[m].slot]

\* C1: a dispatch of a registered aggregate whose handlers all return invokes, for
\* every buffered event, every registration under the event's kind exactly once with
\* that event, and invokes no handler registered under a kind without a buffered event.
C1_FanOut ==
    (Dispatching /\ result.error = Null) => ExactlyOnce(calls, result.events)

\* buffer [A, B], a handler only for A: one invocation, with the A event
C1_Witness ==
    /\ Dispatching /\ result.error = Null
    /\ Len(result.events) = 2
    /\ result.events[1].kind = "A" /\ result.events[2].kind = "B"
    /\ DOMAIN eventHandlers = {"A"}
    /\ Len(calls) = 1 /\ calls[1].event = result.events[1]

\* C2 as stated: after any dispatchAggregateEvents(a) that returns without throwing,
\* a's buffer is empty, and an immediately following dispatchAggregateEvents(a)
\* invokes no handler.
C2_Original ==
    [][/\ (result'.op = "dispatch" /\ result'.error = Null)
            => domainEvents'[result'.arg] = <<>>
       /\ (/\ result.op = "dispatch" /\ result.error = Null
           /\ result'.op = "dispatch" /\ result'.arg = result.arg)
            => calls' = <<>>]_vars

\* C2 amended: after a dispatchAggregateEvents(a) that returns without throwing, a's
\* buffer is empty when a is the instance registered under its id, and an immediately
\* following dispatchAggregateEvents(a) invokes no handler.
C2_ClearedAfterDispatch ==
    [][/\ (result'.op = "dispatch" /\ result'.error = Null
                /\ result'.found = result'.arg)
            => domainEvents'[result'.arg] = <<>>
       /\ (/\ result.op = "dispatch" /\ result.error = Null
           /\ result'.op = "dispatch" /\ result'.arg = result.arg)
            => calls' = <<>>]_vars

\* a dispatch of the registered instance delivered its events and emptied its buffer
C2_Witness ==
    /\ Dispatching /\ result.error = Null
    /\ result.found = result.arg
    /\ calls # <<>>
    /\ domainEvents[result.arg] = <<>>

InRegistry(aggregate) ==
    \E n \in 1..Len(aggregatesWithEvents) : aggregatesWithEvents[n] = aggregate

\* some entry of the registry has this id
IdRegistered(idv) ==
    \E n \in 1..Len(aggregatesWithEvents) : id[aggregatesWithEvents[n]] = idv

\* C4: when a handler's exception escapes dispatchAggregateEvents(a), the aggregate is
\* still registered and its buffer holds the events it held before the call; a following
\* dispatch in which no handler throws finds the same instance and processes the whole
\* buffer, from the first event.
C4_AbortKeepsAggregate ==
    [][/\ (result'.op = "dispatch" /\ result'.error # Null)
            => /\ aggregatesWithEvents' = aggregatesWithEvents
               /\ domainEvents' = domainEvents
               /\ \E n \in 1..Len(aggregatesWithEvents') :
                     aggregatesWithEvents'[n] = result'.found
               /\ domainEvents'[result'.found] = result'.events
       /\ (/\ result.op = "dispatch" /\ result.error # Null
           /\ result'.op = "dispatch" /\ result'.error = Null
           /\ id[result'.arg] = id[result.arg])
            => /\ result'.found = result.found
               /\ result'.events = result.events
               /\ ExactlyOnce(calls', result.events)
               /\ Len(calls) >= 1 /\ Len(calls') >= 1
               /\ calls'[1].event = calls[1].event /\ calls'[1].slot = 1]_vars

\* the second invocation of a dispatch threw: the aggregate and its events are kept
C4_Witness ==
    /\ Dispatching /\ result.error # Null
    /\ Len(calls) = 2
    /\ InRegistry(result.found)
    /\ domainEvents[result.found] = result.events
    /\ Len(result.events) = 2

\* C5 as stated: a buffered record is passed to a handler registration at most once,
\* here over any two successive dispatchAggregateEvents calls (an aborted one included).
C5_AtMostOnce ==
    [][(result.op = "dispatch" /\ result'.op = "dispatch")
          => \A m \in 1..Len(calls), n \in 1..Len(calls') :
                ~(calls[m].event = calls'[n].event /\ calls[m].slot = calls'[n].slot)]_vars

\* C6: an aggregate registered two or more times (by registerAggregate or by recording
\* events) and dispatched once has each registered handler invoked exactly once per
\* buffered event.
C6_NoDuplicateDispatch ==
    (Dispatching /\ result.error = Null /\ result.registered >= 2)
        => ExactlyOnce(calls, result.events)

\* registered at least twice, one event, one invocation
C6_Witness ==
    /\ Dispatching /\ result.error = Null /\ result.registered >= 2
    /\ Len(result.events) = 1
    /\ Len(calls) = 1

\* C7: the registry never holds two entries with the same id, and registerAggregate(x)
\* when an entry with x's id exists leaves the registry as it is: the registered
\* instance stays, x does not replace it.
C7_OneEntryPerId ==
    [][/\ \A m, n \in 1..Len(aggregatesWithEvents') :
             id'[aggregatesWithEvents'[m]] = id'[aggregatesWithEvents'[n]] => m = n
       /\ \A x \in Insts :
             (registerAggregate(x) /\ IdRegistered(id[x]))
                => aggregatesWithEvents' = aggregatesWithEvents]_vars

\* b recorded an event while a, with the same id, was registered: a is the entry
C7_Witness ==
    /\ aggregatesWithEvents = <<"a">>
    /\ id["b"] = id["a"]
    /\ domainEvents["b"] # <<>>
    /\ registerCalls[id["a"]] = 2

\* C8: dispatchAggregateEvents(b), with another instance a of the same id registered,
\* delivers a's events and none of b's, empties a's buffer, unregisters a and leaves
\* b's buffer as it was.
C8_DispatchesRegisteredInstance ==
    [][\A a, b \in Insts :
          (/\ result'.op = "dispatch" /\ result'.arg = b /\ result'.error = Null
           /\ a # b /\ id[a] = id[b] /\ InRegistry(a))
             => /\ ExactlyOnce(calls', domainEvents[a])
                /\ \A n \in 1..Len(calls') : calls'[n].event.ref[1] = a
                /\ domainEvents'[a] = <<>>
                /\ domainEvents'[b] = domainEvents[b]
                /\ \A n \in 1..Len(aggregatesWithEvents') :
                      id[aggregatesWithEvents'[n]] # id[b]]_vars

\* a's event was delivered by a dispatch called with b, whose buffer still holds an event
C8_Witness ==
    /\ Dispatching /\ result.error = Null
    /\ result.found # result.arg
    /\ calls # <<>>
    /\ domainEvents[result.arg] # <<>>
    /\ domainEvents[result.found] = <<>>

\* C9: dispatchAggregateEvents(a) with no aggregate of a's id registered raises nothing,
\* invokes no handler and leaves the handlers, the registry and every buffer as they were.
C9_UnregisteredDispatchNoOp ==
    [][\A x \in Insts :
          (result'.op = "dispatch" /\ result'.arg = x /\ ~IdRegistered(id[x]))
             => /\ result'.error = Null
                /\ calls' = <<>>
                /\ UNCHANGED <<eventHandlers, aggregatesWithEvents, domainEvents>>]_vars

\* an unregistered aggregate with a pending event that has a handler was dispatched
C9_Witness ==
    /\ result.op = "dispatch" /\ result.found = Null
    /\ domainEvents[result.arg] # <<>>
    /\ HandlersOf(domainEvents[result.arg][1].kind) # <<>>
    /\ calls = <<>>

\* C10: the handlers of a kind are invoked in registration order: registerEventHandler
\* puts the handler after those registered before, and a dispatch invokes the handlers
\* of an event from the first of the sequence to the last.
C10_RegistrationOrder ==
    [][/\ (eventHandlers' # eventHandlers /\ eventHandlers' # EmptyMap)
            => \E k \in DOMAIN eventHandlers' :
                  /\ Len(eventHandlers'[k]) = Len(HandlersOf(k)) + 1
                  /\ SubSeq(eventHandlers'[k], 1, Len(HandlersOf(k))) = HandlersOf(k)
       /\ (result'.op = "dispatch" /\ result'.found # Null)
            => \A n \in 1..Len(calls') :
                  /\ calls'[n].handler = HandlersOf(calls'[n].event.kind)[calls'[n].slot]
                  /\ calls'[n].slot =
                        IF n > 1 /\ calls'[n - 1].event = calls'[n].event
                        THEN calls'[n - 1].slot + 1 ELSE 1]_vars

\* two different handlers of one kind were invoked with the same event
C10_Witness ==
    /\ Dispatching /\ result.error = Null
    /\ Len(calls) >= 2
    /\ calls[1].event = calls[2].event
    /\ calls[1].handler # calls[2].handler
    /\ HandlersOf(calls[1].event.kind) = <<calls[1].handler, calls[2].handler>>


\* C11: within one dispatchAggregateEvents call the buffered events are processed in
\* the order of the buffer, and every handler invocation for an earlier event is made
\* before any handler invocation for a later event.
C11_BufferOrder ==
    Dispatching =>
        \A m, n \in 1..Len(calls) :
            m < n => \E i, j \in 1..Len(result.events) :
                        /\ i <= j
                        /\ result.events[i] = calls[m].event
                        /\ result.events[j] = calls[n].event

\* two handlers, two events: both invocations for the first event, then both for the second
C11_Witness ==
    /\ Dispatching /\ result.error = Null
    /\ Len(result.events) = 2 /\ Len(calls) = 4
    /\ calls[1].event = result.events[1] /\ calls[2].event = result.events[1]
    /\ calls[3].event = result.events[2] /\ calls[4].event = result.events[2]
    /\ calls[1].handler # calls[2].handler


\* the number of places of the sequence that hold the handler
Occurrences(hs, handler) == Cardinality({j \in 1..Len(hs) : hs[j] = handler})

\* C12: registerEventHandler does not de-duplicate: every call adds one more registration
\* of the handler under the kind, and a dispatch in which no handler throws invokes a
\* handler, for each buffered event of kind K, as many times as it is registered under K.
C12_NoDeduplication ==
    [][/\ \A k \in Kinds, h \in Handlers :
             registerEventHandler(k, h)
                => Occurrences(eventHandlers'[k], h) = Occurrences(HandlersOf(k), h) + 1
       /\ (result'.op = "dispatch" /\ result'.found # Null /\ result'.error = Null)
            => \A n \in 1..Len(result'.events), h \in Handlers :
                  Cardinality({m \in 1..Len(calls') :
                                  /\ calls'[m].event = result'.events[n]
                                  /\ calls'[m].handler = h})
                     = Occurrences(HandlersOf(result'.events[n].kind), h)]_vars

\* the same handler registered twice under a kind was invoked twice with one event
C12_Witness ==
    /\ Dispatching /\ result.error = Null
    /\ Len(result.events) = 1
    /\ Occurrences(HandlersOf(result.events[1].kind), "h1") = 2
    /\ Len(calls) = 2
    /\ calls[1].handler = "h1" /\ calls[2].handler = "h1"
    /\ calls[1].event = calls[2].event


\* C13: clearEventHandlers leaves no handler under any kind and leaves the registry and
\* every buffer as they were; a dispatch of a registered aggregate made while the
\* handler registry is still empty invokes no handler, raises nothing, empties the
\* aggregate's buffer and unregisters it.
C13_ClearEventHandlers ==
    [][/\ clearEventHandlers
            => /\ \A k \in Kinds : k \notin DOMAIN eventHandlers'
               /\ UNCHANGED <<aggregatesWithEvents, domainEvents>>
       /\ (eventHandlers = EmptyMap /\ result'.op = "dispatch" /\ result'.found # Null)
            => /\ calls' = <<>>
               /\ result'.error = Null
               /\ domainEvents'[result'.found] = <<>>
               /\ \A n \in 1..Len(aggregatesWithEvents') :
                     aggregatesWithEvents'[n] # result'.found]_vars

\* with no handler left, a dispatch took two pending events from a registered aggregate
\* without an invocation
C13_Witness ==
    /\ Dispatching
    /\ eventHandlers = EmptyMap
    /\ Len(result.events) = 2
    /\ calls = <<>>
    /\ domainEvents[result.found] = <<>>
    /\ ~InRegistry(result.found)


\* C14: clearRegisteredAggregates leaves the registry empty and leaves every buffer and
\* the handler registry as they were; a dispatchAggregateEvents call made right after
\* it, while the registry is still empty, invokes no handler and changes nothing, whatever
\* the aggregate has pending.
C14_ClearRegisteredAggregates ==
    [][/\ clearRegisteredAggregates
            => /\ aggregatesWithEvents' = <<>>
               /\ UNCHANGED <<domainEvents, eventHandlers>>
       /\ (aggregatesWithEvents = <<>> /\ result'.op = "dispatch")
            => /\ calls' = <<>>
               /\ result'.error = Null
               /\ UNCHANGED <<domainEvents, eventHandlers, aggregatesWithEvents>>]_vars

\* two aggregates of different ids hold events that have handlers, the registry is empty
\* (only clearRegisteredAggregates leaves that), and a dispatch of one invoked nothing
C14_Witness ==
    /\ result.op = "dispatch" /\ result.found = Null
    /\ aggregatesWithEvents = <<>>
    /\ id["a"] # id["b"]
    /\ \A i \in Insts : /\ domainEvents[i] # <<>>
                        /\ HandlersOf(domainEvents[i][1].kind) # <<>>
    /\ calls = <<>>


\* C15: a buffer changes only by an append at its end or by becoming empty, and it
\* becomes empty only when a dispatch that found its aggregate completes or when the
\* owner clears it. Every completed dispatch empties the buffer of the aggregate it
\* found; a dispatch that aborts, a dispatch for another id, and the four registration
\* and clearing operations of the broker leave every buffered event in its place.
C15_BufferEmptiedOnlyByDispatchOrOwner ==
    [][\A i \in Insts :
          /\ (result'.op = "dispatch" /\ result'.found = i /\ result'.error = Null)
                => domainEvents'[i] = <<>>
          /\ (result'.op = "dispatch" /\ (result'.error # Null \/ id[result'.arg] # id[i]))
                => domainEvents'[i] = domainEvents[i]
          /\ domainEvents'[i] # domainEvents[i]
                => ~( \/ \E k \in Kinds, h \in Handlers : registerEventHandler(k, h)
                      \/ \E x \in Insts : registerAggregate(x)
                      \/ clearEventHandlers
                      \/ clearRegisteredAggregates )
          /\ domainEvents'[i] # domainEvents[i]
                => \/ /\ result'.op = "dispatch" /\ result'.found = i
                      /\ result'.error = Null /\ domainEvents'[i] = <<>>
                   \/ clearDomainEvents(i)
                   \/ /\ Len(domainEvents'[i]) = Len(domainEvents[i]) + 1
                      /\ SubSeq(domainEvents'[i], 1, Len(domainEvents[i])) = domainEvents[i]]_vars

\* a completed dispatch emptied the buffer of the aggregate it found and left the event
\* of the aggregate with the other id where it was
C15_Witness ==
    /\ Dispatching /\ result.error = Null
    /\ calls # <<>>
    /\ domainEvents[result.found] = <<>>
    /\ \E i \in Insts : id[i] # id[result.found] /\ Len(domainEvents[i]) = 1


\* C16: the lifecycle repeats. A completed dispatch leaves the aggregate it found
\* unregistered with an empty buffer; recording an event on that aggregate right after
\* registers it again, with a buffer that holds the new record only; and a completed
\* dispatch delivers exactly the records of the buffer it finds, which are those recorded
\* since the buffer was last emptied.
C16_LifecycleRepeats ==
    [][/\ (result'.op = "dispatch" /\ result'.found # Null /\ result'.error = Null)
            => /\ \A n \in 1..Len(aggregatesWithEvents') :
                     id[aggregatesWithEvents'[n]] # id[result'.found]
               /\ domainEvents'[result'.found] = <<>>
               /\ result'.events = domainEvents[result'.found]
               /\ ExactlyOnce(calls', domainEvents[result'.found])
       /\ \A k \in Kinds :
             (/\ Dispatching /\ result.error = Null
              /\ addDomainEvent(result.found, k))
                => /\ \E n \in 1..Len(aggregatesWithEvents') :
                         aggregatesWithEvents'[n] = result.found
                   /\ Len(domainEvents'[result.found]) = 1
                   /\ domainEvents'[result.found][1].kind = k]_vars

\* a dispatch of the registered aggregate delivered the one record of its buffer to two
\* handlers and left it unregistered with an empty buffer, ready to be registered again
C16_Witness ==
    /\ Dispatching /\ result.error = Null
    /\ result.found = result.arg
    /\ Len(result.events) = 1 /\ Len(calls) = 2
    /\ domainEvents[result.found] = <<>>
    /\ ~IdRegistered(id[result.found])


\* C17 as stated: every aggregate in the registry has a non-empty buffer.
C17_Original ==
    \A n \in 1..Len(aggregatesWithEvents) : domainEvents[aggregatesWithEvents[n]] # <<>>

\* C17 amended: an aggregate comes to be in the registry with an empty buffer only by a
\* registerAggregate call made for it while its buffer is empty, or by its owner clearing
\* the buffer while it is registered; recording an event and dispatching never leave
\* a registered aggregate with an empty buffer that did not have one before.
C17_RegisteredEmptyOnlyByCaller ==
    [][\A i \in Insts :
          (/\ \E n \in 1..Len(aggregatesWithEvents') : aggregatesWithEvents'[n] = i
           /\ domainEvents'[i] = <<>>
           /\ ~(InRegistry(i) /\ domainEvents[i] = <<>>))
             => \/ registerAggregate(i) /\ domainEvents[i] = <<>>
                \/ clearDomainEvents(i) /\ InRegistry(i)]_vars

\* registerAggregate was called for an aggregate that has recorded nothing
C17_Witness ==
    /\ aggregatesWithEvents = <<"a">>
    /\ domainEvents["a"] = <<>>
    /\ domainEvents["b"] = <<>>
    /\ registerCalls[id["a"]] = 1


\* C19 as stated: when the only handler registered for the kind of the one buffered event
\* throws, dispatchAggregateEvents has invoked that handler exactly once and raises
\* nothing to its caller.
C19_SoleHandlerThrowNotRaised ==
    (/\ Dispatching
     /\ Len(result.events) = 1
     /\ Len(HandlersOf(result.events[1].kind)) = 1
     /\ calls # <<>> /\ calls[1].outcome = "threw")
        => /\ Len(calls) = 1
           /\ calls[1].handler = HandlersOf(result.events[1].kind)[1]
           /\ result.error = Null


\* the most recent call was equals with an entity as its argument
ComparedEntities == result.op = "equals" /\ result.object \in Entities

\* C20 as stated: a.equals(b) is true if and only if a and b have the same id (===).
C20_Original ==
    ComparedEntities
        => (result.value <=> StrictEquals(id[result.this], id[result.object]))

\* C20 amended: a.equals(b) is true if and only if a and b are the same object or have
\* the same id (===); for two different objects, and for an object whose id is === to
\* itself, that is: if and only if they have the same id.
C20_EqualsSameObjectOrId ==
    ComparedEntities
        => /\ result.value <=> \/ result.this = result.object
                                \/ StrictEquals(id[result.this], id[result.object])
           /\ (result.this # result.object \/ id[result.this] # NaN)
                => (result.value <=> StrictEquals(id[result.this], id[result.object]))

\* two different objects constructed with the same id were found equal
C20_Witness ==
    /\ ComparedEntities
    /\ result.this # result.object
    /\ id[result.this] = "p" /\ id[result.object] = "p"
    /\ result.value = TRUE


\* the step is the rejection of a promise that an invocation had returned
Rejection ==
    /\ Len(calls') = Len(calls)
    /\ \E n \in 1..Len(calls) :
          calls[n].outcome = "returned" /\ calls'[n].outcome = "rejected"

\* C18: handler invocation is fire-and-forget. When dispatchAggregateEvents returns, every
\* handler has been started, what the handlers returned has not been waited for, the
\* buffer is empty and the aggregate is unregistered; when a promise returned by a
\* handler is rejected afterwards, the finished call still has raised nothing, and the
\* handlers, the registry and the buffers stay as they are.
C18_FireAndForget ==
    [][/\ (/\ result'.op = "dispatch" /\ result'.found # Null /\ result'.error = Null
           /\ ~Rejection
           /\ \A n \in 1..Len(calls') : calls'[n].outcome # "rejected")
            => /\ ExactlyOnce(calls', domainEvents[result'.found])
               /\ \A n \in 1..Len(calls') : calls'[n].outcome = "returned"
               /\ domainEvents'[result'.found] = <<>>
               /\ \A n \in 1..Len(aggregatesWithEvents') :
                     aggregatesWithEvents'[n] # result'.found
       /\ Rejection
            => /\ result' = result
               /\ UNCHANGED <<domainEvents, eventHandlers, aggregatesWithEvents>>
               /\ \A n \in 1..Len(calls) :
                     /\ calls'[n].handler = calls[n].handler
                     /\ calls'[n].event = calls[n].event]_vars

\* after a dispatch that returned normally, emptied the buffer and unregistered the
\* aggregate, the promise of its one invocation was rejected
C18_Witness ==
    /\ Dispatching /\ result.error = Null
    /\ Len(calls) = 1 /\ calls[1].outcome = "rejected"
    /\ domainEvents[result.found] = <<>>
    /\ ~InRegistry(result.found)
    /\ HandlersOf(calls[1].event.kind) # <<>>


\* C21: equals returns false, and raises nothing, when its argument is null, undefined
\* or an object that is not an entity, also when that object has an id field equal to
\* the id of the entity asked.
C21_FalseForNonEntities ==
    (result.op = "equals" /\ result.object \notin Entities)
        => /\ result.value \in BOOLEAN
           /\ result.value = FALSE

\* equals was called with a plain object that carries the entity's own id
C21_Witness ==
    /\ result.op = "equals"
    /\ result.object \in PlainObjects
    /\ IdOf(result.object) = id[result.this]
    /\ id[result.this] = "p"
    /\ result.value = FALSE


\* C22: construction does not fail for a missing id. When the data holds an id, that
\* value is the identifier, the stored data have no id field any more and generateId
\* was not called; when the data hold none, or are undefined, generateId was called
\* exactly once and what it returned is the identifier.
C22_ConstructorId ==
    result.op = "new" =>
        LET data == result.data
            provided == data.defined /\ ~Nullish(data.id)
        IN /\ ~Nullish(id[result.this]) /\ id[result.this] # NotConstructed
           /\ provided => /\ id[result.this] = data.id
                          /\ result.generateIdCalls = 0
           /\ ~provided => /\ id[result.this] = uuid(result.this)
                           /\ result.generateIdCalls = 1
           /\ result._data.defined
           /\ result._data.id = Undefined
           /\ result._data.name = data.name

\* an entity was constructed from undefined data: its id is the generated one
C22_Witness ==
    /\ result.op = "new"
    /\ ~result.data.defined
    /\ result.generateIdCalls = 1
    /\ id[result.this] = uuid(result.this)


\* C23: the id an object got at construction is its id in every later state: no
\* equality check, event recording, registration, dispatch or clear operation changes it.
C23_IdNeverChanges ==
    [][\A i \in Insts :
          /\ id'[i] = id[i]
          /\ id[i] # NotConstructed /\ ~Nullish(id[i])]_vars

\* after recordings, a registration of handlers and an equality check between the two
\* aggregates, each still has the id its constructor gave it
C23_Witness ==
    /\ id["a"] = "p" /\ id["b"] = uuid("b")
    /\ result.op = "equals" /\ result.this = "a" /\ result.object = "b"
    /\ result.value = FALSE
    /\ domainEvents["a"] # <<>> /\ domainEvents["b"] # <<>>
    /\ Len(aggregatesWithEvents) = 2
    /\ eventHandlers # EmptyMap


\* C28: a new aggregate's buffer is empty, and recording an event puts the record at the
\* end of the buffer: the buffer after addDomainEvent is the buffer before followed by
\* the new record, the earlier records unchanged and in the same order.
C28_RecordAppends ==
    /\ (\A i \in Insts : domainEvents[i] = <<>>)
    /\ [][\A i \in Insts, k \in Kinds :
             addDomainEvent(i, k)
                => /\ Len(domainEvents'[i]) = Len(domainEvents[i]) + 1
                   /\ SubSeq(domainEvents'[i], 1, Len(domainEvents[i])) = domainEvents[i]
                   /\ domainEvents'[i][Len(domainEvents'[i])].kind = k
                   /\ domainEvents'[i][Len(domainEvents'[i])].aggregateId = id[i]
                   /\ \A j \in Insts \ {i} : domainEvents'[j] = domainEvents[j]]_vars

\* an aggregate recorded an A event and then a B event: the buffer holds them in that order
C28_Witness ==
    /\ result = NoResult
    /\ Len(domainEvents["a"]) = 2
    /\ domainEvents["a"][1].kind = "A" /\ domainEvents["a"][2].kind = "B"
    /\ domainEvents["a"][1].ref = <<"a", 1>> /\ domainEvents["a"][2].ref = <<"a", 2>>

\* C29: registerEventHandler(K, h) puts h at the end of K's handler sequence, which it
\* creates when K had none, and changes nothing else: the handlers K had keep their
\* places, the sequences of the other kinds, the registry and the buffers stay as they are.
C29_RegisterEventHandlerFrame ==
    [][\A k \in Kinds, h \in Handlers :
          registerEventHandler(k, h)
             => /\ k \in DOMAIN eventHandlers'
                /\ eventHandlers'[k] = HandlersOf(k) \o <<h>>
                /\ \A other \in Kinds \ {k} :
                      /\ other \in DOMAIN eventHandlers' <=> other \in DOMAIN eventHandlers
                      /\ other \in DOMAIN eventHandlers
                            => eventHandlers'[other] = eventHandlers[other]
                /\ UNCHANGED <<aggregatesWithEvents, domainEvents, id>>]_vars

\* a second handler was registered under a kind while another kind has a handler and an
\* aggregate is registered with an event
C29_Witness ==
    /\ result = NoResult
    /\ "A" \in DOMAIN eventHandlers /\ eventHandlers["A"] = <<"h1", "h2">>
    /\ aggregatesWithEvents # <<>>
    /\ \E i \in Insts : domainEvents[i] # <<>>


\* C30: a dispatchAggregateEvents(a) that finds a's id and returns removes from the
\* registry the entry with a's id and nothing else: every other registered aggregate
\* stays registered, in its place, with its buffer as it was, none of its events is
\* delivered during the call, and the handler registry is unchanged.
C30_UnregistersOnlyDispatched ==
    [][(result'.op = "dispatch" /\ result'.found # Null /\ result'.error = Null)
          => /\ aggregatesWithEvents' =
                   SelectSeq(aggregatesWithEvents,
                             LAMBDA x : ~StrictEquals(id[x], id[result'.arg]))
             /\ Len(aggregatesWithEvents') = Len(aggregatesWithEvents) - 1
             /\ \A n \in 1..Len(aggregatesWithEvents) :
                   LET other == aggregatesWithEvents[n]
                   IN id[other] # id[result'.arg]
                         => /\ domainEvents'[other] = domainEvents[other]
                            /\ \A m \in 1..Len(calls') : calls'[m].event.ref[1] # other
                            /\ \A m \in 1..Len(calls') :
                                  calls'[m].event.aggregateId # id[other]
             /\ eventHandlers' = eventHandlers]_vars

\* the second of two registered aggregates was dispatched and its event delivered; the
\* first is still registered with its event, for which there is a handler
C30_Witness ==
    /\ Dispatching /\ result.error = Null
    /\ result.found = "b"
    /\ calls # <<>>
    /\ aggregatesWithEvents = <<"a">>
    /\ domainEvents["a"] # <<>>
    /\ HandlersOf(domainEvents["a"][1].kind) # <<>>
    /\ domainEvents["b"] = <<>>


\* C24 as stated: the kind that selects the handlers of a record is the one fixed on the
\* record when it was constructed: a dispatch in which no handler throws invokes, for
\* every buffered record, the handlers registered under the name the record's class had
\* at construction, in their order, and no others.
C24_KindFixedAtConstruction ==
    (Dispatching /\ result.error = Null)
        => \A n \in 1..Len(result.events) :
              LET event == result.events[n]
                  got == SelectSeq(calls, LAMBDA c : c.event = event)
              IN /\ Len(got) = Len(HandlersOf(event.constructedAs))
                 /\ \A j \in 1..Len(got) :
                       got[j].handler = HandlersOf(event.constructedAs)[j]


\* C25: a record is determined when it is constructed and never changes afterwards. The
\* record a domain method constructs and buffers has the aggregate's id as aggregateId,
\* the clock reading of that moment as timestamp, and as data the data given, or null
\* when none (undefined or null) was given; a record that stays in a buffer over a step
\* is the same after it, whatever the step; and every handler invocation of a dispatch
\* receives a record of the dispatched buffer as it was constructed, its aggregateId the
\* id dispatched.
C25_RecordFixedAtConstruction ==
    [][/\ \A i \in Insts, k \in Kinds, data \in EventData, now \in Timestamps :
            (Len(domainEvents'[i]) > Len(domainEvents[i]) /\ raise(i, k, data, now))
               => LET event == domainEvents'[i][Len(domainEvents'[i])]
                  IN /\ event.aggregateId = id[i]
                     /\ event.timestamp = now
                     /\ data \in {Undefined, Null} => event.data = Null
                     /\ data \notin {Undefined, Null} => event.data = data
       /\ \A i \in Insts : \A n \in 1..Len(domainEvents'[i]) :
            n <= Len(domainEvents[i]) => domainEvents'[i][n] = domainEvents[i][n]
       /\ (result'.op = "dispatch" /\ result'.found # Null)
             => \A m \in 1..Len(calls') :
                   /\ \E n \in 1..Len(domainEvents[result'.found]) :
                         calls'[m].event = domainEvents[result'.found][n]
                   /\ calls'[m].event.aggregateId = id[result'.arg]
                   /\ calls'[m].event.timestamp \in Timestamps
                   /\ calls'[m].event.data \in {Null, Payload}]_vars

\* C25 happens: the buffer held a record constructed without data at the first clock
\* reading and one constructed with data at the second, and a handler has received both
\* in one dispatch
C25_Witness ==
    /\ Dispatching /\ result.error = Null
    /\ Len(calls) = 2
    /\ calls[1].event.data = Null /\ calls[1].event.timestamp = Epoch
    /\ calls[2].event.data = Payload /\ calls[2].event.timestamp # Epoch
    /\ calls[1].event.aggregateId = id[result.arg]


Constructed == {e \in Entities : id[e] # NotConstructed}

\* C34: equals is an equivalence relation over the entities: every entity equals
\* itself, a.equals(b) and b.equals(a) have the same value, and a.equals(b) with
\* b.equals(c) gives a.equals(c).
C34_EqualsIsEquivalence ==
    \A a \in Constructed :
       /\ equals(a, a)
       /\ \A b \in Constructed :
             /\ equals(a, b) <=> equals(b, a)
             /\ \A c \in Constructed :
                   (equals(a, b) /\ equals(b, c)) => equals(a, c)

\* C34 happens: three different objects with one id exist and the first has been
\* compared with the last
C34_Witness ==
    /\ Constructed = Entities
    /\ result.op = "equals" /\ result.value = TRUE
    /\ result.this = "a" /\ result.object = "c"
    /\ equals("a", "b") /\ equals("b", "c")


\* a handler invocation begins in this step
Invoked ==
    /\ stack' # <<>>
    /\ \/ Len(stack') > Len(stack)
       \/ /\ Len(stack') = Len(stack)
          /\ <<stack'[Len(stack')].n, stack'[Len(stack')].j>> # <<Top.n, Top.j>>

\* after the step the aggregate of the innermost dispatch is in the registry
StillRegistered ==
    \E n \in 1..Len(aggregatesWithEvents') :
       aggregatesWithEvents'[n] = stack'[Len(stack')].found

\* after the step the buffer holds every event the innermost dispatch iterates, in place
NothingRemoved ==
    LET frame == stack'[Len(stack')]
    IN \A m \in 1..Len(frame.events) :
          /\ m <= Len(domainEvents'[frame.found])
          /\ domainEvents'[frame.found][m] = frame.events[m]

\* after the step some handler of a dispatch in progress has made the call
HandlerCalled(call) == \E d \in 1..Len(stack') : stack'[d].interfered = call

\* C31 as stated: at the moment any handler is invoked, the aggregate being dispatched
\* is in the registry and the broker has removed no event from its buffer.
C31_Original ==
    [][Invoked => /\ StillRegistered
                  /\ ~HandlerCalled("clearDomainEvents") => NothingRemoved]_vars

\* C31, amended: in a dispatch none of whose handlers has itself called
\* dispatchAggregateEvents for the aggregate or clearRegisteredAggregates, the aggregate
\* is in the registry and the broker has removed no event from its buffer at the moment
\* any handler is invoked: the buffer is cleared and the aggregate unregistered only
\* after the last invocation has returned.
C31_ClearsAfterLastHandler ==
    [][(/\ Invoked
        /\ ~HandlerCalled("dispatchAggregateEvents")
        /\ ~HandlerCalled("clearRegisteredAggregates"))
          => /\ StillRegistered
             /\ ~HandlerCalled("clearDomainEvents") => NothingRemoved]_vars

\* C31 happens: the handler for the second of two buffered events is running, the first
\* event's handler has returned, both events are in the buffer and the aggregate is
\* registered
C31_Witness ==
    /\ Len(stack) = 1 /\ Undisturbed
    /\ Top.n = 2 /\ Top.j = 1
    /\ HandlersOf(NameOf(Top.events[1])) # <<>>
    /\ domainEvents[Top.found] = Top.events
    /\ \E n \in 1..Len(aggregatesWithEvents) : aggregatesWithEvents[n] = Top.found


\* C32 as stated: an event that a handler records on the aggregate while the aggregate
\* is being dispatched is not lost: when the dispatch has returned, a handler has been
\* invoked with the event during it, or the event is in the aggregate's buffer and the
\* aggregate is registered.
C32_RecordedDuringDispatchNotLost ==
    (result.op = "dispatch" /\ result.state = "returned")
        => \A event \in result.late :
              \/ result.delivered
              \/ /\ \E n \in 1..Len(domainEvents[result.found]) :
                       domainEvents[result.found][n] = event
                 /\ \E n \in 1..Len(aggregatesWithEvents) :
                       aggregatesWithEvents[n] = result.found


\* C33: a handler that a running handler registers for the kind of the event being
\* dispatched is not invoked for that event: no invocation of the dispatch call for the
\* event is the one of a registration made during it. The inner loop goes through its
\* array one handler at a time, and when the turn of a later event of that kind comes,
\* the array iterated holds the handler at the place it was registered at.
C33_RegisteredDuringDispatch ==
    [][Invoked =>
          LET depth == Len(stack')
              frame == stack'[depth]
              kind == constructorName[frame.events[frame.n].kind]
              began == Len(stack') > Len(stack) \/ frame.n # Top.n
          IN /\ \A r \in result'.regs :
                   ~(r.depth = depth /\ r.n = frame.n /\ r.kind = kind /\ r.slot = frame.j)
             /\ ~began => frame.j = Top.j + 1
             /\ began => /\ frame.j = 1
                         /\ \A r \in result'.regs :
                               r.kind = kind
                                  => /\ r.slot <= Len(frame.hs)
                                     /\ frame.hs[r.slot] = r.handler]_vars

\* C33 happens: during the first of two events of one kind a handler registered a
\* handler for that kind, and that handler is now running for the second event
C33_Witness ==
    /\ Len(stack) = 1 /\ Top.n = 2
    /\ NameOf(Top.events[1]) = NameOf(Top.events[2])
    /\ \E r \in result.regs :
          /\ r.depth = 1 /\ r.n = 1 /\ r.kind = NameOf(Top.events[2])
          /\ Top.j = r.slot /\ Top.hs[Top.j] = r.handler

====
